---------------------------- MODULE Spec2Model ----------------------------
(***************************************************************************)
(* Alias expansion of the command line: AliasTransformer of                *)
(* azure/cli/core/alias.py.                                                *)
(*                                                                         *)
(* A string is a sequence of one-character strings, so that lower(),       *)
(* replace(), split() and the regular expressions of the source work on    *)
(* characters as they do in Python.                                        *)
(***************************************************************************)
EXTENDS Integers, Sequences, FiniteSets, TLC

(***************************************************************************)
(* str methods                                                             *)
(***************************************************************************)
UpperCase == <<"A","B","C","D","E","F","G","H","I","J","K","L","M",
               "N","O","P","Q","R","S","T","U","V","W","X","Y","Z">>
LowerCase == <<"a","b","c","d","e","f","g","h","i","j","k","l","m",
               "n","o","p","q","r","s","t","u","v","w","x","y","z">>
DigitChars == <<"0","1","2","3","4","5","6","7","8","9">>

IsUpper(c) == \E k \in 1..26 : UpperCase[k] = c
IsLower(c) == \E k \in 1..26 : LowerCase[k] = c
IsDigit(c) == \E k \in 1..10 : DigitChars[k] = c
IsAlpha(c) == IsUpper(c) \/ IsLower(c)
IsSpace(c) == c = " "

LowerChar(c) ==
    IF IsUpper(c) THEN LowerCase[CHOOSE k \in 1..26 : UpperCase[k] = c] ELSE c

\* str.lower()
Lower(s) == [k \in 1..Len(s) |-> LowerChar(s[k])]

\* s[i:].startswith(p), i counted from 1
StartsAt(s, p, i) ==
    /\ i + Len(p) - 1 <= Len(s)
    /\ \A k \in 1..Len(p) : s[i + k - 1] = p[k]

\* p in s
Contains(s, p) == \E i \in 1..(Len(s) - Len(p) + 1) : StartsAt(s, p, i)

\* s.find(p, i - 1) + 1: the first index >= i where p starts, 0 if none
FindFrom(s, p, i) ==
    IF \E k \in i..Len(s) : StartsAt(s, p, k)
    THEN CHOOSE k \in i..Len(s) :
             StartsAt(s, p, k) /\ \A j \in i..(k - 1) : ~StartsAt(s, p, j)
    ELSE 0

RECURSIVE ReplaceFrom(_, _, _, _)
ReplaceFrom(s, old, new, i) ==
    IF FindFrom(s, old, i) = 0 THEN SubSeq(s, i, Len(s))
    ELSE SubSeq(s, i, FindFrom(s, old, i) - 1) \o new
         \o ReplaceFrom(s, old, new, FindFrom(s, old, i) + Len(old))

RECURSIVE Intersperse(_, _, _)
Intersperse(s, new, i) ==
    IF i > Len(s) THEN new ELSE new \o <<s[i]>> \o Intersperse(s, new, i + 1)

\* s.replace(old, new): every non-overlapping occurrence, left to right
Replace(s, old, new) ==
    IF old = <<>> THEN Intersperse(s, new, 1) ELSE ReplaceFrom(s, old, new, 1)

RECURSIVE SplitFrom(_, _, _)
SplitFrom(s, i, cur) ==
    IF i > Len(s) THEN (IF cur = <<>> THEN <<>> ELSE <<cur>>)
    ELSE CASE IsSpace(s[i]) /\ cur = <<>> -> SplitFrom(s, i + 1, <<>>)
           [] IsSpace(s[i]) /\ cur # <<>> -> <<cur>> \o SplitFrom(s, i + 1, <<>>)
           [] OTHER -> SplitFrom(s, i + 1, Append(cur, s[i]))

\* s.split(): the maximal runs of non-whitespace
Split(s) == SplitFrom(s, 1, <<>>)

RECURSIVE IntToStr(_)
\* '{}'.format(n) for n >= 0
IntToStr(n) ==
    IF n < 10 THEN <<DigitChars[n + 1]>>
    ELSE IntToStr(n \div 10) \o <<DigitChars[(n % 10) + 1]>>

RECURSIVE DigitsEnd(_, _)
\* the first index >= i of s that holds no digit
DigitsEnd(s, i) ==
    IF i <= Len(s) /\ IsDigit(s[i]) THEN DigitsEnd(s, i + 1) ELSE i

RECURSIVE StrToInt(_, _, _)
\* int(s[i:j])
StrToInt(s, i, j) ==
    IF j <= i THEN 0
    ELSE 10 * StrToInt(s, i, j - 1) + ((CHOOSE k \in 1..10 : DigitChars[k] = s[j - 1]) - 1)

(***************************************************************************)
(* re: the part of Python's pattern language that the patterns of the      *)
(* source and the text interpolated into collision_regex use:              *)
(*     ^  $  .  |  ( )  \s  {n}  and literal characters.                   *)
(* A pattern is kept as its text; matching follows the text, so that       *)
(* whatever str.replace() does to the text changes what it matches.        *)
(* There are no captures or back-references, so the set of positions a     *)
(* pattern can stop at decides whether it matches.                         *)
(***************************************************************************)
RECURSIVE CloseParen(_, _, _)
\* the index of the ")" that closes the group around position i, 0 if none
CloseParen(R, i, d) ==
    IF i > Len(R) THEN 0
    ELSE CASE R[i] = "\\" -> CloseParen(R, i + 2, d)
           [] R[i] = "(" -> CloseParen(R, i + 1, d + 1)
           [] R[i] = ")" /\ d = 1 -> i
           [] R[i] = ")" /\ d # 1 -> CloseParen(R, i + 1, d - 1)
           [] OTHER -> CloseParen(R, i + 1, d)

\* the first index of i..hi that holds "\", "(" or "|", hi + 1 if none
NextMark(R, i, hi) ==
    CHOOSE k \in i..(hi + 1) :
        /\ k = hi + 1 \/ R[k] \in {"\\", "(", "|"}
        /\ \A j \in i..(k - 1) : R[j] \notin {"\\", "(", "|"}

RECURSIVE NextBar(_, _, _), NextBarAt(_, _, _)
\* the index of the first "|" of R[i..hi] outside every group, hi + 1 if none
NextBar(R, i, hi) == NextBarAt(R, NextMark(R, i, hi), hi)

\* the same, k being the next "\", "(" or "|"
NextBarAt(R, k, hi) ==
    CASE k > hi -> hi + 1
      [] k <= hi /\ R[k] = "\\" -> NextBar(R, k + 2, hi)
      [] k <= hi /\ R[k] = "(" -> NextBar(R, CloseParen(R, k + 1, 1) + 1, hi)
      [] k <= hi /\ R[k] = "|" -> k

\* "{digits}" at i is a repeat count: the index after its "}", else 0
\* ("{" followed by anything else is a literal "{")
QuantEnd(R, i) ==
    IF i <= Len(R) /\ R[i] = "{" /\ DigitsEnd(R, i + 1) > i + 1
       /\ DigitsEnd(R, i + 1) <= Len(R) /\ R[DigitsEnd(R, i + 1)] = "}"
    THEN DigitsEnd(R, i + 1) + 1
    ELSE 0

QuantVal(R, i) == StrToInt(R, i + 1, DigitsEnd(R, i + 1))

\* the index after the item that starts at i
AtomEnd(R, i) ==
    IF R[i] = "(" THEN CloseParen(R, i + 1, 1) + 1
    ELSE IF R[i] = "\\" THEN i + 2
    ELSE i + 1

\* what precedes i in its branch: "none" (the branch starts at i), "at"
\* (^ or $), "repeat" (a repeat count) or "item"
Preceding(R, i) ==
    CASE i = 1 -> "none"
      [] i > 1 /\ R[i - 1] \in {"(", "|"} -> "none"
      [] i > 1 /\ R[i - 1] \in {"^", "$"} -> "at"
      [] i > 1 /\ R[i - 1] = "}" /\ (\E k \in 1..(i - 1) : QuantEnd(R, k) = i) -> "repeat"
      [] OTHER -> "item"

\* re.compile(R) raises re.error: a backslash with no known escape after it,
\* an unclosed group, a repeat count with nothing to repeat (at the start of
\* a branch or after ^ or $) or a repeat of a repeat.
CompileError(R) ==
    \/ \E i \in 1..Len(R) : R[i] = "\\" /\ (i = Len(R) \/ R[i + 1] # "s")
    \/ \E i \in 1..Len(R) : R[i] = "(" /\ CloseParen(R, i + 1, 1) = 0
    \/ \E i \in 1..Len(R) : QuantEnd(R, i) # 0 /\ Preceding(R, i) # "item"

RECURSIVE MatchAlt(_, _, _, _, _), MatchSeq(_, _, _, _, _),
          AtomStep(_, _, _, _), AtomRepeat(_, _, _, _, _)

\* the positions of s after the item of R at i, started at a position of P
AtomStep(R, i, s, P) ==
    IF R[i] = "(" THEN MatchAlt(R, i + 1, CloseParen(R, i + 1, 1) - 1, s, P)
    ELSE IF R[i] = "\\" THEN {p + 1 : p \in {q \in P : q <= Len(s) /\ IsSpace(s[q])}}
    ELSE IF R[i] = "^" THEN P \cap {1}
    ELSE IF R[i] = "$" THEN P \cap {Len(s) + 1}
    ELSE IF R[i] = "." THEN {p + 1 : p \in {q \in P : q <= Len(s)}}
    ELSE {p + 1 : p \in {q \in P : q <= Len(s) /\ s[q] = R[i]}}

AtomRepeat(R, i, s, P, n) ==
    IF n = 0 THEN P ELSE AtomRepeat(R, i, s, AtomStep(R, i, s, P), n - 1)

\* one branch R[lo..hi]: its items one after the other
MatchSeq(R, lo, hi, s, P) ==
    CASE lo > hi \/ P = {} -> P
      [] lo <= hi /\ P # {} /\ QuantEnd(R, AtomEnd(R, lo)) # 0 ->
            MatchSeq(R, QuantEnd(R, AtomEnd(R, lo)), hi, s,
                     AtomRepeat(R, lo, s, P, QuantVal(R, AtomEnd(R, lo))))
      [] OTHER -> MatchSeq(R, AtomEnd(R, lo), hi, s, AtomStep(R, lo, s, P))

\* R[lo..hi]: any of its branches
MatchAlt(R, lo, hi, s, P) ==
    IF NextBar(R, lo, hi) > hi THEN MatchSeq(R, lo, hi, s, P)
    ELSE MatchSeq(R, lo, NextBar(R, lo, hi) - 1, s, P)
         \cup MatchAlt(R, NextBar(R, lo, hi) + 1, hi, s, P)

\* re.compile(R).match(s) is not None
ReMatch(R, s) == MatchAlt(R, 1, Len(R), s, {1}) # {}

\* filter(f, xs) as a list
RECURSIVE FilterSeq(_, _, _)
FilterSeq(R, xs, k) ==
    IF k > Len(xs) THEN <<>>
    ELSE IF ReMatch(R, xs[k]) THEN <<xs[k]>> \o FilterSeq(R, xs, k + 1)
    ELSE FilterSeq(R, xs, k + 1)

(***************************************************************************)
(* The alias table: the sections of the parsed alias file, in file order.  *)
(* A section is [name, has_command, command]; has_command is FALSE for a   *)
(* section without a 'command' option.                                     *)
(***************************************************************************)
DEFAULT_SECTION == <<"D","E","F","A","U","L","T">>

HasSection(tbl, q) == \E k \in 1..Len(tbl) : tbl[k].name = q

\* query in self.alias_table (ConfigParser.__contains__)
InTable(tbl, q) == q = DEFAULT_SECTION \/ HasSection(tbl, q)

\* the sections whose first word is the query
SectionsFor(tbl, q) == {k \in 1..Len(tbl) : Split(tbl[k].name)[1] = q}

\* get_full_alias as it would be if it compared names without regard to case
get_full_alias_ignoring_case(tbl, query) ==
    IF \E k \in 1..Len(tbl) : Lower(Split(tbl[k].name)[1]) = Lower(query)
    THEN tbl[CHOOSE k \in 1..Len(tbl) :
                /\ Lower(Split(tbl[k].name)[1]) = Lower(query)
                /\ \A m \in 1..(k - 1) : Lower(Split(tbl[m].name)[1]) # Lower(query)].name
    ELSE <<>>

get_full_alias(tbl, query) ==
    IF InTable(tbl, query) THEN query
    ELSE IF SectionsFor(tbl, query) # {}
         THEN tbl[CHOOSE k \in SectionsFor(tbl, query) :
                     \A m \in SectionsFor(tbl, query) : k <= m].name
         ELSE <<>>

RECURSIVE CountPlaceholders(_, _)
\* the matches of PLACEHOLDER_REGEX \s*{\d+} in s from i on (the optional
\* whitespace in front of a match does not change their number)
CountPlaceholders(s, i) ==
    IF i > Len(s) THEN 0
    ELSE IF QuantEnd(s, i) # 0 THEN 1 + CountPlaceholders(s, QuantEnd(s, i))
    ELSE CountPlaceholders(s, i + 1)

count_positional_args(full_alias) == CountPlaceholders(full_alias, 1)

\* self.alias_table[full_alias].get('command', alias) if full_alias in
\* self.alias_table else alias
CommandOf(tbl, full_alias, alias) ==
    IF InTable(tbl, full_alias) /\ HasSection(tbl, full_alias)
    THEN LET sec == tbl[CHOOSE k \in 1..Len(tbl) : tbl[k].name = full_alias]
         IN  IF sec.has_command THEN sec.command ELSE alias
    ELSE alias

\* '{{{}}}'.format(j)
Placeholder(j) == <<"{">> \o IntToStr(j) \o <<"}">>

\* args[start_index: start_index + num_pos_args]; start_index is the
\* 1-based position of the alias, so the slice starts right after it
PosArgs(args, start_index, num_pos_args) ==
    SubSeq(args, start_index + 1,
           IF start_index + num_pos_args <= Len(args)
           THEN start_index + num_pos_args ELSE Len(args))

\* pos_args_iter as it would be without its test of the length
pos_args_never_short(args, start_index, num_pos_args) == FALSE

\* pos_args_iter raises when the slice is short
pos_args_short(args, start_index, num_pos_args) ==
    Len(PosArgs(args, start_index, num_pos_args)) # num_pos_args

RECURSIVE InjectPosArgs(_, _, _)
\* the loop over pos_args_iter: [ok, cmd]; ok is FALSE when a
\* placeholder is not in the command
InjectPosArgs(cmd, pos_args, j) ==
    IF j >= Len(pos_args) THEN [ok |-> TRUE, cmd |-> cmd]
    ELSE IF ~Contains(cmd, Placeholder(j)) THEN [ok |-> FALSE, cmd |-> cmd]
    ELSE InjectPosArgs(Replace(cmd, Placeholder(j), pos_args[j + 1]), pos_args, j + 1)

(***************************************************************************)
(* post_transform                                                          *)
(***************************************************************************)
\* the character class [\'|\"] of QUOTES_REGEX
QuoteClass == {"'", "|", "\""}

\* re.sub(QUOTES_REGEX, '', arg): the first character when it is of the
\* class, and the last character when it is of the class and not the one
\* already removed
remove_leading_trailing_quotes(arg) ==
    LET lead == Len(arg) >= 1 /\ arg[1] \in QuoteClass
        trail == Len(arg) >= 2 /\ arg[Len(arg)] \in QuoteClass
    IN  SubSeq(arg, IF lead THEN 2 ELSE 1, IF trail THEN Len(arg) - 1 ELSE Len(arg))

RECURSIVE AlnumEnd(_, _)
AlnumEnd(s, i) ==
    IF i <= Len(s) /\ (IsAlpha(s[i]) \/ IsDigit(s[i])) THEN AlnumEnd(s, i + 1) ELSE i

RECURSIVE FindEnvVars(_, _)
\* re.findall(ENV_VAR_REGEX, s): the matches of \$[a-zA-Z][a-zA-Z0-9]*
FindEnvVars(s, i) ==
    IF i > Len(s) THEN <<>>
    ELSE IF s[i] = "$" /\ i + 1 <= Len(s) /\ IsAlpha(s[i + 1])
         THEN <<SubSeq(s, i, AlnumEnd(s, i + 2) - 1)>> \o FindEnvVars(s, AlnumEnd(s, i + 2))
         ELSE FindEnvVars(s, i + 1)

\* os.path.expandvars('$NAME'): the value of NAME, the text unchanged if unset.
\* env is a set of <<name, value>> pairs, one per name
expandvars(env, ref) ==
    IF \E e \in env : e[1] = Tail(ref)
    THEN (CHOOSE e \in env : e[1] = Tail(ref))[2]
    ELSE ref

RECURSIVE InjectEach(_, _, _, _)
InjectEach(env, arg, env_vars, k) ==
    IF k > Len(env_vars) THEN arg
    ELSE InjectEach(env, Replace(arg, env_vars[k], expandvars(env, env_vars[k])),
                    env_vars, k + 1)

inject_env_vars(env, arg) == InjectEach(env, arg, FindEnvVars(arg, 1), 1)

post_transform(env, args) ==
    [k \in 1..Len(args) |-> inject_env_vars(env, remove_leading_trailing_quotes(args[k]))]

(***************************************************************************)
(* check_recursive_alias                                                   *)
(***************************************************************************)
\* the check as it would be if it did not consult the collision cache
RecursiveAtAnyAlias(tbl, cache, commands) ==
    {k \in 1..Len(commands) : get_full_alias(tbl, commands[k]) # <<>>}

\* the positions of commands the check raises for
RecursiveAt(tbl, cache, commands) ==
    {k \in 1..Len(commands) :
        commands[k] \notin cache /\ get_full_alias(tbl, commands[k]) # <<>>}

\* check_recursive_alias as it would be if the error named the first
\* subcommand of commands
check_recursive_alias_naming_first(tbl, cache, commands) == commands[1]

\* the subcommand the error names
check_recursive_alias(tbl, cache, commands) ==
    commands[CHOOSE k \in RecursiveAt(tbl, cache, commands) :
                \A m \in RecursiveAt(tbl, cache, commands) : k <= m]

(***************************************************************************)
(* transform: one iteration of the loop over args                          *)
(***************************************************************************)
\* the suffix as it would be if the alias had to end the command
CollisionSuffixEndOnly == <<"$">>

\* the text is_collision appends after the alias: ($|\s)
CollisionSuffix == <<"(", "$", "|", "\\", "s", ")">>

\* get_truncated_reserved_commands as it would be if it listed the commands
\* it keeps from the last to the first
get_truncated_reserved_commands_backwards(regex, reserved) ==
    [k \in 1..Len(FilterSeq(regex, reserved, 1)) |->
        FilterSeq(regex, reserved, 1)[Len(FilterSeq(regex, reserved, 1)) + 1 - k]]

get_truncated_reserved_commands(regex, reserved) == FilterSeq(regex, reserved, 1)

\* is_collision as it would be if it looked for the alias among the words of
\* the reserved commands, at whatever level
is_collision_at_any_level(alias, regex, reserved) ==
    [regex    |-> regex \o Lower(alias) \o <<"(", "$", "|", "\\", "s", ")">>,
     error    |-> FALSE,
     collided |-> SelectSeq(reserved,
                            LAMBDA c : \E k \in 1..Len(Split(c)) : Split(c)[k] = Lower(alias))]

\* is_collision(alias) up to its test of collided: the pattern it leaves in
\* self.collision_regex, whether compiling it raises, and the commands it
\* matches
is_collision(alias, regex, reserved) ==
    LET r == regex \o Lower(alias) \o CollisionSuffix
    IN  [regex    |-> r,
         error    |-> CompileError(r),
         collided |-> IF CompileError(r) THEN <<>>
                      ELSE get_truncated_reserved_commands(r, reserved)]

\* what one iteration leaves behind
Iteration(regex, cache, reserved, emitted, next, error, branch) ==
    [regex |-> regex, cache |-> cache, reserved |-> reserved, emitted |-> emitted,
     next |-> next, error |-> error, branch |-> branch]

\* The body of "for i, alias in args_iter" for the alias at position p of
\* args, on the engine fields E = [regex, cache, reserved].
\* emitted: what it adds to transformed_commands; next: the position of the
\* next alias args_iter yields; error: the exception that leaves the loop.
LoopBody(tbl, args, p, E) ==
    LET alias        == args[p]
        full_alias   == get_full_alias(tbl, alias)
        num_pos_args == count_positional_args(full_alias)
        cmd          == CommandOf(tbl, full_alias, alias)
        checked      == alias[1] # "-"
        col          == is_collision(alias, E.regex, E.reserved)
        regex1       == IF checked THEN col.regex ELSE E.regex
        regex2       == Replace(regex1, Lower(alias), Lower(cmd))
        inj          == InjectPosArgs(cmd, PosArgs(args, p, num_pos_args), 0)
    IN
    IF alias = <<>>
    THEN Iteration(E.regex, E.cache, E.reserved, <<>>, p, "IndexError", "error")
    ELSE IF checked /\ col.error
    THEN Iteration(col.regex, E.cache, E.reserved, <<>>, p, "re.error", "error")
    ELSE IF checked /\ col.collided # <<>>
    THEN Iteration(col.regex, E.cache \cup {alias}, col.collided, <<alias>>, p + 1,
                   "", "collision")
    ELSE IF num_pos_args = 0 /\ alias # cmd
    THEN IF CompileError(regex2)
         THEN Iteration(regex2, E.cache, E.reserved, <<>>, p, "re.error", "error")
         ELSE Iteration(regex2, E.cache,
                        get_truncated_reserved_commands(regex2, E.reserved),
                        Split(cmd), p + 1, "", "alias")
    ELSE IF num_pos_args > 0
    THEN IF pos_args_short(args, p, num_pos_args) \/ ~inj.ok
         THEN Iteration(regex1, E.cache, E.reserved, <<>>, p,
                        "InconsistentIndexing", "error")
         ELSE Iteration(regex1, E.cache, E.reserved, Split(inj.cmd),
                        p + 1 + num_pos_args, "", "positional")
    ELSE Iteration(regex1, E.cache, E.reserved, Split(cmd), p + 1, "", "plain")

RECURSIVE RunLoop(_, _, _, _, _)
\* the whole loop from position p on: [regex, cache, reserved, out, error]
RunLoop(tbl, args, p, E, out) ==
    IF p > Len(args)
    THEN [regex |-> E.regex, cache |-> E.cache, reserved |-> E.reserved,
          out |-> out, error |-> ""]
    ELSE LET it == LoopBody(tbl, args, p, E)
         IN  IF it.error # ""
             THEN [regex |-> it.regex, cache |-> it.cache, reserved |-> it.reserved,
                   out |-> out, error |-> it.error]
             ELSE RunLoop(tbl, args, it.next,
                          [regex |-> it.regex, cache |-> it.cache,
                           reserved |-> it.reserved],
                          out \o it.emitted)

\* the result of a call: what is returned, or the exception and, for the
\* recursive-alias error, the subcommand it names
Returned(value) == [kind |-> "returned", value |-> value, error |-> "", name |-> <<>>]
Raised(error, name) == [kind |-> "raised", value |-> <<>>, error |-> error, name |-> name]

\* lines 115-123: post_transform, the recursion check, the return
Conclude(tbl, env, cache, args, out) ==
    LET commands == post_transform(env, out)
    IN  IF commands # args /\ RecursiveAt(tbl, cache, commands) # {}
        THEN Raised("RecursiveAlias", check_recursive_alias(tbl, cache, commands))
        ELSE Returned(commands)

\* transform(args) on an engine whose fields are E
transform(tbl, env, E, args) ==
    LET run == RunLoop(tbl, args, 1, E, <<>>)
    IN  IF run.error # "" THEN Raised(run.error, <<>>)
        ELSE Conclude(tbl, env, run.cache, args, run.out)

\* the fields __init__ sets
NewEngine(reserved_commands) ==
    [regex |-> <<"^">>, cache |-> {}, reserved |-> reserved_commands]

(***************************************************************************)
(* The alias files, reserved commands, environments and argument words     *)
(* the model runs the engine on                                            *)
(***************************************************************************)
s_vm == <<"v","m">>
s_create == <<"c","r","e","a","t","e">>
s_account == <<"a","c","c","o","u","n","t">>
s_gl == <<"g","l">>
s_GL == <<"G","L">>
s_list == <<"l","i","s","t">>
s_group_list == <<"g","r","o","u","p"," ","l","i","s","t">>
s_vm_create == <<"v","m"," ","c","r","e","a","t","e">>
s_vm_list == <<"v","m"," ","l","i","s","t">>
s_account_list == <<"a","c","c","o","u","n","t"," ","l","i","s","t">>
s_debug == <<"-","-","d","e","b","u","g">>
s_cm == <<"c","m">>
s_cm_0_1 == <<"c","m"," ","{","0","}"," ","{","1","}">>
s_cm_template == <<"v","m"," ","c","r","e","a","t","e"," ","-","g"," ","{","0","}"," ","-","n"," ","{","1","}">>
s_rg1 == <<"r","g","1">>
s_ph1 == <<"{","1","}">>
s_a_b == <<"a"," ","b">>
s_a == <<"a">>
s_b == <<"b">>
s_b_c == <<"b"," ","c">>
s_x == <<"x">>
s_qx == <<"'","x","'">>
s_e == <<"e">>
s_echo_FOO == <<"e","c","h","o"," ","$","F","O","O">>
s_echo == <<"e","c","h","o">>
s_FOO == <<"F","O","O">>
s_bar == <<"b","a","r">>
s_FOOBAR == <<"F","O","O","B","A","R">>
s_baz == <<"b","a","z">>
s_FOO_FOOBAR == <<"$","F","O","O","$","F","O","O","B","A","R">>
s_x_bar == <<"x","|">>
s_g == <<"-","g">>
s_resource_group == <<"-","-","r","e","s","o","u","r","c","e","-","g","r","o","u","p">>
s_n == <<"-","n">>
s_n_0 == <<"-","n"," ","{","0","}">>
s_name_0 == <<"-","-","n","a","m","e"," ","{","0","}">>
s_mm == <<"m","m">>
s_nn == <<"n","n">>
s_mm_0 == <<"m","m"," ","{","0","}">>
s_nn_0_1 == <<"n","n"," ","{","0","}"," ","{","1","}">>
s_vm_show_0_1 == <<"v","m"," ","s","h","o","w"," ","{","0","}"," ","{","1","}">>
s_x_0 == <<"x"," ","{","0","}">>
s_qqx == <<"'","'","x","'","'">>
s_m == <<"m">>
s_all == <<"a","l","l">>
s_vm_list_all == <<"v","m"," ","l","i","s","t"," ","a","l","l">>

Section(name, command) == [name |-> name, has_command |-> TRUE, command |-> command]

\* an alias that is also a reserved word, and one that is not
CollisionCase ==
    [table    |-> <<Section(s_vm, s_list), Section(s_gl, s_group_list)>>,
     reserved |-> <<s_vm_create, s_vm_list, s_account_list, s_group_list>>,
     env      |-> {},
     words    |-> {s_vm, s_create, s_account, s_gl, s_debug},
     again    |-> {s_vm, s_account}]

\* an alias with two positional arguments
PositionalCase ==
    [table    |-> <<Section(s_cm_0_1, s_cm_template), Section(s_gl, s_group_list)>>,
     reserved |-> <<s_vm_create, s_group_list>>,
     env      |-> {},
     words    |-> {s_cm, s_rg1, s_ph1, s_a_b, s_gl},
     again    |-> {s_cm, s_rg1}]

\* two aliases that name each other
RecursiveCase ==
    [table    |-> <<Section(s_a, s_b), Section(s_b, s_a)>>,
     reserved |-> <<s_b_c>>,
     env      |-> {},
     words    |-> {s_a, s_b, s_x, s_qx},
     again    |-> {s_a, s_b}]

\* environment variables, quotes and letter case
PostCase ==
    [table    |-> <<Section(s_e, s_echo_FOO), Section(s_gl, s_group_list)>>,
     reserved |-> <<s_group_list, s_echo>>,
     env      |-> {<<s_FOO, s_bar>>, <<s_FOOBAR, s_baz>>},
     words    |-> {s_e, s_gl, s_GL, s_qx, s_FOO_FOOBAR, s_x_bar},
     again    |-> {s_gl, s_qx}]

\* sections whose names start with "-"
FlagCase ==
    [table    |-> <<Section(s_g, s_resource_group), Section(s_n_0, s_name_0),
                    Section(s_gl, s_group_list)>>,
     reserved |-> <<s_vm_create, s_group_list>>,
     env      |-> {},
     words    |-> {s_g, s_n, s_gl, s_vm, s_x},
     again    |-> {s_g, s_vm}]

\* section names and templates that do not hold the same placeholders
MismatchCase ==
    [table    |-> <<Section(s_mm_0, s_vm_show_0_1), Section(s_nn_0_1, s_x_0)>>,
     reserved |-> <<s_vm_create>>,
     env      |-> {},
     words    |-> {s_mm, s_nn, s_x},
     again    |-> {s_mm, s_x}]

\* args that name no alias: a token that holds a whole reserved command, its
\* words as tokens of their own, a token in two pairs of quotes
ResolvedCase ==
    [table    |-> <<Section(s_gl, s_group_list)>>,
     reserved |-> <<s_vm_create, s_account_list>>,
     env      |-> {},
     words    |-> {s_vm_create, s_vm, s_create, s_qqx},
     again    |-> {s_vm_create, s_qqx}]

\* an alias whose name is part of a word that comes before it
RewriteCase ==
    [table    |-> <<Section(s_m, s_list)>>,
     reserved |-> <<s_vm_create, s_vm_list_all>>,
     env      |-> {},
     words    |-> {s_vm, s_m, s_all},
     again    |-> {s_vm, s_m}]

Cases == {CollisionCase, PositionalCase, RecursiveCase, PostCase, FlagCase,
          MismatchCase, ResolvedCase, RewriteCase}

\* the longest args of a call
MaxArgs == 3

\* the calls made on one engine object, and the longest args of a call
\* when several are made
MaxCalls == 2
MaxArgsAgain == 2

\* the sequences of 1..n words
ArgsOver(words, n) == UNION {[1..k -> words] : k \in 1..n}

(***************************************************************************)
(* The state                                                               *)
(***************************************************************************)
VARIABLES
    alias_table,          \* self.alias_table
    reserved_input,       \* the list passed to __init__, as the caller sees it
    environ,              \* os.environ
    words,                \* the words args are made of
    again,                \* the words args are made of when calls repeat
    reserved_commands,    \* self.reserved_commands
    collision_regex,      \* self.collision_regex
    collision_cache,      \* self.collision_cache
    pc,                   \* "ready", "loop", "check", "returned", "raised"
    args,                 \* the args of the call in progress, or of the last one
    i,                    \* the position of the next alias args_iter yields
    transformed_commands, \* transformed_commands
    result,               \* what the last call returned or raised
    last,                 \* the last iteration of the loop: what it did
    level,                \* the words the collision pattern has taken in
    skipped,              \* the positions of args that next(args_iter) skipped
    calls                 \* the calls made on the engine so far

vars == <<alias_table, reserved_input, environ, words, again, reserved_commands,
          collision_regex, collision_cache, pc, args, i, transformed_commands,
          result, last, level, skipped, calls>>

config == <<alias_table, reserved_input, environ, words, again>>

NoIteration == [pos |-> 0, branch |-> "none", emitted |-> <<>>, reserved |-> <<>>,
                regex |-> <<>>, level |-> 0]

Engine == [regex |-> collision_regex, cache |-> collision_cache,
           reserved |-> reserved_commands]

\* AliasTransformer(reserved_commands), the alias file read
Init ==
    /\ \E c \in Cases :
          /\ alias_table = c.table
          /\ reserved_input = c.reserved
          /\ environ = c.env
          /\ words = c.words
          /\ again = c.again
          /\ reserved_commands = c.reserved
    /\ collision_regex = <<"^">>
    /\ collision_cache = {}
    /\ pc = "ready"
    /\ args = <<>>
    /\ i = 1
    /\ transformed_commands = <<>>
    /\ result = Returned(<<>>)
    /\ last = NoIteration
    /\ level = 0
    /\ skipped = {}
    /\ calls = 0

\* transform(a) is entered: lines 52-55
Enter(a) ==
    /\ pc \in {"ready", "returned", "raised"}
    /\ pc' = "loop"
    /\ args' = a
    /\ i' = 1
    /\ transformed_commands' = <<>>
    /\ last' = NoIteration
    /\ level' = 0
    /\ skipped' = {}
    /\ calls' = calls + 1
    /\ UNCHANGED <<config, reserved_commands, collision_regex, collision_cache, result>>

\* the first call on the engine
Transform(a) == calls = 0 /\ Enter(a)

\* a further call on the same engine
TransformAgain(a) == calls \in 1..(MaxCalls - 1) /\ Enter(a)

\* the words an iteration adds to the path the collision pattern spells
PathWords(it, alias) ==
    IF alias[1] = "-" \/ it.branch = "error" THEN 0
    ELSE IF it.branch = "alias" THEN Len(it.emitted)
    ELSE Len(Split(alias))

\* one iteration of the loop, lines 84-113
LoopStep ==
    /\ pc = "loop"
    /\ i <= Len(args)
    /\ \E it \in {LoopBody(alias_table, args, i, Engine)} :
           /\ collision_regex' = it.regex
           /\ collision_cache' = it.cache
           /\ reserved_commands' = it.reserved
           /\ transformed_commands' = transformed_commands \o it.emitted
           /\ i' = it.next
           /\ last' = [pos |-> i, branch |-> it.branch, emitted |-> it.emitted,
                       reserved |-> reserved_commands, regex |-> collision_regex,
                       level |-> level]
           /\ level' = level + PathWords(it, args[i])
           /\ skipped' = skipped \cup ((i + 1)..(it.next - 1))
           /\ pc' = IF it.error # "" THEN "raised" ELSE "loop"
           /\ result' = IF it.error # "" THEN Raised(it.error, <<>>) ELSE result
    /\ UNCHANGED <<config, args, calls>>

\* the loop is over: line 115
PostTransform ==
    /\ pc = "loop"
    /\ i > Len(args)
    /\ transformed_commands' = post_transform(environ, transformed_commands)
    /\ pc' = "check"
    /\ UNCHANGED <<config, reserved_commands, collision_regex, collision_cache,
                   args, i, result, last, level, skipped, calls>>

\* lines 117-123
Finish ==
    /\ pc = "check"
    /\ IF transformed_commands # args
          /\ RecursiveAt(alias_table, collision_cache, transformed_commands) # {}
       THEN /\ pc' = "raised"
            /\ result' = Raised("RecursiveAlias",
                                check_recursive_alias(alias_table, collision_cache,
                                                      transformed_commands))
       ELSE /\ pc' = "returned"
            /\ result' = Returned(transformed_commands)
    /\ UNCHANGED <<config, reserved_commands, collision_regex, collision_cache,
                   args, i, transformed_commands, last, level, skipped, calls>>

Next ==
    \/ \E a \in ArgsOver(words, MaxArgs) : Transform(a)
    \/ LoopStep
    \/ PostTransform
    \/ Finish

\* one call on a new engine
Spec == Init /\ [][Next]_vars

NextCalls ==
    \/ \E a \in ArgsOver(again, MaxArgsAgain) : Transform(a)
    \/ \E a \in ArgsOver(again, MaxArgsAgain) : TransformAgain(a)
    \/ LoopStep
    \/ PostTransform
    \/ Finish

\* several calls on one engine
SpecCalls == Init /\ [][NextCalls]_vars

\* the steps agree with the call as a whole
StepsAreTheCall ==
    pc \in {"returned", "raised"} /\ calls = 1 =>
        result = transform(alias_table, environ, NewEngine(reserved_input), args)

(***************************************************************************)
(* What the claims speak of                                                *)
(***************************************************************************)
Done == pc \in {"returned", "raised"}

\* an iteration of the loop has run in this call
Scanned == last.branch # "none"

\* the alias the last iteration was about
LastAlias == args[last.pos]

\* a section is named q or has q as the first word of its name
IsAliasName(q) ==
    \E k \in 1..Len(alias_table) :
        alias_table[k].name = q \/ Split(alias_table[k].name)[1] = q

\* the template of the alias q and the number of its placeholders
TemplateOf(q) == CommandOf(alias_table, get_full_alias(alias_table, q), q)
PositionalCount(q) == count_positional_args(get_full_alias(alias_table, q))

\* is_collision did not report the alias of the last iteration
NotCollided ==
    \/ LastAlias[1] = "-"
    \/ LET col == is_collision(LastAlias, last.regex, last.reserved)
       IN  ~col.error /\ col.collided = <<>>

\* the first p tokens of a are no flags and are, word by word, the start of
\* a reserved command
SpellsReserved(a, p) ==
    /\ \A k \in 1..p : a[k][1] # "-"
    /\ \E n \in 1..Len(reserved_input) :
          /\ p <= Len(Split(reserved_input[n]))
          /\ \A k \in 1..p : Split(reserved_input[n])[k] = a[k]

(***************************************************************************)
(* C1: on a new engine, the leading tokens of args that spell the start of *)
(* a reserved command are each added to the output as they are, also when *)
(* the token is the name of an alias; a call that returns has them at the  *)
(* start of what it returns.                                               *)
(***************************************************************************)
C1_ReservedPrefixIsKept ==
    /\ (Scanned /\ SpellsReserved(args, last.pos)) =>
          (last.branch = "collision" /\ last.emitted = <<LastAlias>>)
    /\ (pc \in {"check", "returned"}) =>
          \A p \in 1..Len(args) :
             SpellsReserved(args, p) =>
                (p <= Len(transformed_commands) /\ transformed_commands[p] = args[p])

\* transform(['vm', 'create']) has returned ['vm', 'create'], vm an alias
C1_Witness ==
    /\ pc = "returned"
    /\ args = <<s_vm, s_create>>
    /\ IsAliasName(s_vm)
    /\ result = Returned(<<s_vm, s_create>>)

(***************************************************************************)
(* C3: when the loop reaches an alias that did not collide and has k > 0   *)
(* placeholders, and fewer than k tokens follow it, the call raises the    *)
(* inconsistent-indexing error and returns nothing.                        *)
(***************************************************************************)
C3_TooFewArgumentsRaises ==
    (/\ Scanned
     /\ PositionalCount(LastAlias) > 0
     /\ NotCollided
     /\ Len(args) - last.pos < PositionalCount(LastAlias))
    => (pc = "raised" /\ result = Raised("InconsistentIndexing", <<>>))

\* transform(['cm', 'rg1']) has raised, cm taking two arguments
C3_Witness ==
    /\ pc = "raised"
    /\ args = <<s_cm, s_rg1>>
    /\ last.pos = 1
    /\ PositionalCount(s_cm) = 2
    /\ result.error = "InconsistentIndexing"

\* the token at k of the assembled output is outside the collision cache and
\* names an alias
Suspect(k) ==
    /\ transformed_commands[k] \notin collision_cache
    /\ (IsAliasName(transformed_commands[k]) \/ transformed_commands[k] = DEFAULT_SECTION)

(***************************************************************************)
(* C4: a call whose assembled output differs from args and holds a token   *)
(* that is not in the collision cache and names an alias raises the        *)
(* recursive-alias error for the first such token; with a -> b and b -> a, *)
(* transform(['a']) raises it for 'b'; so what a call returns, when it     *)
(* differs from args, holds no such token.                                 *)
(***************************************************************************)
C4_RecursionGuard ==
    /\ (pc = "returned" /\ result.value # args) =>
          (/\ result.value = transformed_commands
           /\ \A k \in 1..Len(transformed_commands) : ~Suspect(k))
    /\ (pc = "raised" /\ result.error = "RecursiveAlias") =>
          (/\ transformed_commands # args
           /\ \E k \in 1..Len(transformed_commands) :
                 /\ Suspect(k)
                 /\ \A m \in 1..(k - 1) : ~Suspect(m)
                 /\ result.name = transformed_commands[k])
    /\ (Done /\ args = <<s_a>> /\ TemplateOf(s_a) = s_b /\ TemplateOf(s_b) = s_a) =>
          result = Raised("RecursiveAlias", s_b)

\* transform(['a']) has raised the error for 'b'
C4_Witness ==
    /\ pc = "raised"
    /\ args = <<s_a>>
    /\ TemplateOf(s_a) = s_b
    /\ TemplateOf(s_b) = s_a
    /\ result = Raised("RecursiveAlias", s_b)

\* a command the last iteration started with has the alias as the word
\* after the words taken in so far
NextWordReserved ==
    \E n \in 1..Len(last.reserved) :
        /\ Len(Split(last.reserved[n])) > last.level
        /\ Split(last.reserved[n])[last.level + 1] = LastAlias

(***************************************************************************)
(* C7: a token that is no flag and names an alias without placeholders is  *)
(* not suppressed where no remaining reserved command has it as its next   *)
(* word: the words of its template are added to the output in its place.   *)
(* gl -> 'group list' turns ['gl'] into ['group', 'list']; vm -> 'list'    *)
(* turns ['account', 'vm'] into ['account', 'list'] although vm is the     *)
(* first word of reserved commands.                                        *)
(***************************************************************************)
C7_CollisionIsPerLevel ==
    /\ (/\ Scanned
        /\ LastAlias[1] # "-"
        /\ IsAliasName(LastAlias)
        /\ PositionalCount(LastAlias) = 0
        /\ TemplateOf(LastAlias) # LastAlias
        /\ ~NextWordReserved)
       => (/\ last.branch = "alias"
           /\ last.emitted = Split(TemplateOf(LastAlias))
           /\ pc = "loop" =>
                 /\ Len(transformed_commands) >= Len(last.emitted)
                 /\ SubSeq(transformed_commands,
                           Len(transformed_commands) - Len(last.emitted) + 1,
                           Len(transformed_commands)) = last.emitted)
    /\ (Done /\ args = <<s_gl>> /\ TemplateOf(s_gl) = s_group_list) =>
          result = Returned(<<Split(s_group_list)[1], Split(s_group_list)[2]>>)
    /\ (Done /\ args = <<s_account, s_vm>> /\ TemplateOf(s_vm) = s_list) =>
          result = Returned(<<s_account, s_list>>)

\* transform(['account', 'vm']) has returned ['account', 'list'], vm the
\* first word of a reserved command
C7_Witness ==
    /\ pc = "returned"
    /\ args = <<s_account, s_vm>>
    /\ SpellsReserved(<<s_vm>>, 1)
    /\ last.pos = 2
    /\ last.branch = "alias"
    /\ result = Returned(<<s_account, s_list>>)

RECURSIVE FillWord(_, _, _)
\* the word w from position at on, every {j} with an argument replaced by that
\* argument, which is not looked at again
FillWord(w, pos_args, at) ==
    IF at > Len(w) THEN <<>>
    ELSE IF QuantEnd(w, at) # 0 /\ QuantVal(w, at) < Len(pos_args)
         THEN pos_args[QuantVal(w, at) + 1] \o FillWord(w, pos_args, QuantEnd(w, at))
         ELSE <<w[at]>> \o FillWord(w, pos_args, at + 1)

\* the words of the template, filled
FilledTemplate(template, pos_args) ==
    [k \in 1..Len(Split(template)) |-> FillWord(Split(template)[k], pos_args, 1)]

(***************************************************************************)
(* C2: when the loop reaches an alias that did not collide and has k > 0   *)
(* placeholders, and at least k tokens follow it, the next k tokens are    *)
(* consumed and the tokens added to the output are the words of the        *)
(* template, each {j} in them replaced by the (j+1)-th consumed token as   *)
(* it is; no argument's value is changed by the others.                    *)
(***************************************************************************)
C2_ArgumentsAreInsertedAsTheyAre ==
    (/\ Scanned
     /\ PositionalCount(LastAlias) > 0
     /\ NotCollided
     /\ Len(args) - last.pos >= PositionalCount(LastAlias))
    => (/\ last.branch = "positional"
        /\ (pc = "loop" => i = last.pos + 1 + PositionalCount(LastAlias))
        /\ last.emitted =
              FilledTemplate(TemplateOf(LastAlias),
                             SubSeq(args, last.pos + 1,
                                    last.pos + PositionalCount(LastAlias))))

(***************************************************************************)
(* C5: a call with args none of whose tokens names an alias returns args.  *)
(***************************************************************************)
C5_Identity ==
    (Done /\ \A k \in 1..Len(args) : ~IsAliasName(args[k]))
    => result = Returned(args)

(***************************************************************************)
(* C6: every call on an engine ends as the same call ends on a new engine  *)
(* with the same alias table and the reserved commands first supplied.     *)
(***************************************************************************)
C6_EveryCallStartsAfresh ==
    Done => result = transform(alias_table, environ, NewEngine(reserved_input), args)

(***************************************************************************)
(* C8: a token that starts with "-" is added to the output as itself: it   *)
(* is not replaced by a template and takes no following token as its       *)
(* argument, whatever the alias table holds.                               *)
(***************************************************************************)
C8_FlagsAreNeverAliases ==
    (Scanned /\ LastAlias[1] = "-")
    => (/\ last.branch = "plain"
        /\ last.emitted = <<LastAlias>>
        /\ (pc = "loop" => i = last.pos + 1))

\* the names of the aliases: the first words of the section names
AliasNames == {Split(alias_table[k].name)[1] : k \in 1..Len(alias_table)}

(***************************************************************************)
(* C9: a token that differs from an alias name only in the case of its     *)
(* letters is the same alias: transform([t]) ends as transform([n]) does.  *)
(***************************************************************************)
C9_LookupIgnoresCase ==
    (Done /\ Len(args) = 1)
    => \A n \in AliasNames :
          Lower(n) = Lower(args[1]) =>
             result = transform(alias_table, environ, NewEngine(reserved_input), <<n>>)

(***************************************************************************)
(* C9, amended: the lookup tells the case of letters apart. A token that   *)
(* is itself no alias name, whatever names it matches when case is         *)
(* ignored, is never expanded: it is added to the output as it is (split   *)
(* at its whitespace when it did not collide). Only the collision check    *)
(* lowers the token.                                                       *)
(***************************************************************************)
C9_LookupTellsCaseApart ==
    (/\ Scanned
     /\ ~IsAliasName(LastAlias)
     /\ LastAlias # DEFAULT_SECTION)
    => (/\ last.branch \in {"collision", "plain", "error"}
        /\ (last.branch = "collision" => last.emitted = <<LastAlias>>)
        /\ (last.branch = "plain" => last.emitted = Split(LastAlias)))

\* transform(['GL']) has returned ['GL'] though gl is an alias
C9_Witness ==
    /\ pc = "returned"
    /\ args = <<s_GL>>
    /\ IsAliasName(Lower(s_GL))
    /\ ~IsAliasName(s_GL)
    /\ result = Returned(<<s_GL>>)

\* args with the consumed values replaced by a word that names no alias
WithPlainValues ==
    [k \in 1..Len(args) |-> IF k \in skipped THEN s_x ELSE args[k]]

(***************************************************************************)
(* C10: the tokens consumed as positional arguments are looked up nowhere: *)
(* a call ends the same way whether or not a consumed value is the name of *)
(* an alias.                                                               *)
(***************************************************************************)
C10_ConsumedTokensAreNotLookedUp ==
    (Done /\ skipped # {})
    => LET other == transform(alias_table, environ, NewEngine(reserved_input),
                              WithPlainValues)
       IN  other.kind = result.kind /\ other.error = result.error

\* the numbers n of the placeholders {n} in s
PlaceholderIndices(s) ==
    {QuantVal(s, k) : k \in {m \in 1..Len(s) : QuantEnd(s, m) # 0}}

\* the tokens the last iteration consumed as positional arguments
Consumed == i - last.pos - 1

(***************************************************************************)
(* C11: an alias that is expanded consumes as many tokens as its template  *)
(* holds distinct placeholders, and the placeholders of the template are   *)
(* {0} .. {k-1} for the k tokens consumed; when the template names a       *)
(* placeholder no token is consumed for, or a token is consumed that no    *)
(* placeholder stands for, the call raises the inconsistent-indexing       *)
(* error, so no {n} of a template is left in what is returned.             *)
(***************************************************************************)
C11_PlaceholderMismatchRaises ==
    (Scanned /\ IsAliasName(LastAlias) /\ NotCollided)
    => \/ pc = "raised" /\ result = Raised("InconsistentIndexing", <<>>)
       \/ /\ last.branch \in {"alias", "positional"}
          /\ PlaceholderIndices(TemplateOf(LastAlias)) = 0..(Consumed - 1)

RECURSIVE ExpandRefs(_, _, _)
\* s from position at on, every reference $NAME in it replaced by the value
\* of NAME (left as it is when NAME is not set), the text put in its place
\* not looked at again
ExpandRefs(env, s, at) ==
    IF at > Len(s) THEN <<>>
    ELSE IF s[at] = "$" /\ at + 1 <= Len(s) /\ IsAlpha(s[at + 1])
         THEN expandvars(env, SubSeq(s, at, AlnumEnd(s, at + 2) - 1))
              \o ExpandRefs(env, s, AlnumEnd(s, at + 2))
         ELSE <<s[at]>> \o ExpandRefs(env, s, at + 1)

(***************************************************************************)
(* C12: the step after the loop replaces, in every token of the output,    *)
(* each reference $NAME by the value of NAME and of no other variable,     *)
(* whatever other references the token holds; with FOO=bar the alias       *)
(* e -> 'echo $FOO' turns ['e'] into ['echo', 'bar'].                      *)
(***************************************************************************)
C12_ReferencesAreReplacedEachByItsOwn ==
    /\ [][(pc = "loop" /\ pc' = "check") =>
            transformed_commands' =
               [k \in 1..Len(transformed_commands) |->
                   ExpandRefs(environ,
                              remove_leading_trailing_quotes(transformed_commands[k]),
                              1)]]_vars
    /\ []((Done /\ args = <<s_e>> /\ TemplateOf(s_e) = s_echo_FOO
                /\ <<s_FOO, s_bar>> \in environ)
          => result = Returned(<<s_echo, s_bar>>))

\* the token without one leading and without one trailing quote character,
\* ' or "
WithoutQuotes(token) ==
    LET lead == Len(token) >= 1 /\ token[1] \in {"'", "\""}
        trail == Len(token) >= 2 /\ token[Len(token)] \in {"'", "\""}
    IN  SubSeq(token, IF lead THEN 2 ELSE 1,
               IF trail THEN Len(token) - 1 ELSE Len(token))

(***************************************************************************)
(* C13: the step after the loop takes from every token of the output at    *)
(* most its first and at most its last character, and only a ' or a ";     *)
(* "'x'" becomes "x", and a token that neither starts nor ends with a      *)
(* quote character goes unchanged into the replacement of variables.       *)
(***************************************************************************)
C13_OnlyQuotesAreTrimmed ==
    [][(pc = "loop" /\ pc' = "check") =>
          transformed_commands' =
             [k \in 1..Len(transformed_commands) |->
                 inject_env_vars(environ, WithoutQuotes(transformed_commands[k]))]]_vars

\* A call that is underway takes its next step: an iteration of the loop,
\* the step after the loop or the recursion check. Each of them changes pc
\* or i, and one of them can be taken wherever pc is "loop" or "check" (the
\* guards of LoopStep and PostTransform are i <= Len(args) and its negation,
\* Finish has none).
CallMovesOn ==
    /\ pc \in {"loop", "check"}
    /\ pc' \in {"loop", "check", "returned", "raised"}
    /\ i' \in i..(Len(args) + 1)

\* One call on a new engine, the call running on once it is entered: the
\* loop, the step after it and the recursion check are straight-line code
\* of transform, lines 84-123.
SpecLive == Spec /\ WF_<<pc, i>>(CallMovesOn)

\* a call that is entered ends
CallEnds == (pc = "loop") ~> Done

\* the loop goes over args from left to right, and nothing of a call runs
\* a second time
SinglePass ==
    [][/\ (pc = "loop" /\ pc' = "loop") => i' > i
       /\ pc = "check" => pc' \in {"returned", "raised"}
       /\ Done => pc' = "loop" /\ calls' = calls + 1]_vars

(***************************************************************************)
(* C14: a call goes over args once, from left to right, and ends: it       *)
(* returns tokens or raises the inconsistent-indexing error or the         *)
(* recursive-alias error; nothing it has put out is expanded again.        *)
(***************************************************************************)
C14_EndsReturningOrRaisingOneOfTwo ==
    /\ SinglePass
    /\ (pc = "loop") ~>
          \/ pc = "returned"
          \/ pc = "raised" /\ result.error \in {"InconsistentIndexing", "RecursiveAlias"}

\* the fields of the engine after transform(a) has run on the engine E
EngineAfter(tbl, E, a) ==
    LET run == RunLoop(tbl, a, 1, E, <<>>)
    IN  [regex |-> run.regex, cache |-> run.cache, reserved |-> run.reserved]

(***************************************************************************)
(* C15: when no token of args names an alias, the same call made again on  *)
(* the engine ends as the first did, and a call with what they returned    *)
(* returns it unchanged.                                                   *)
(***************************************************************************)
C15_ResolvedArgsAreAFixedPoint ==
    (Done /\ calls = 1 /\ \A k \in 1..Len(args) : ~IsAliasName(args[k]))
    => /\ transform(alias_table, environ, Engine, args) = result
       /\ result.kind = "returned" =>
             transform(alias_table, environ,
                       EngineAfter(alias_table, Engine, args), result.value)
                = Returned(result.value)

\* what the call had put out before the last iteration (while in the loop)
PreOutput ==
    SubSeq(transformed_commands, 1, Len(transformed_commands) - Len(last.emitted))

\* the tokens of path are, word by word, the start of a reserved command
IsReservedPath(path) ==
    \E n \in 1..Len(reserved_input) :
        /\ Len(path) <= Len(Split(reserved_input[n]))
        /\ \A k \in 1..Len(path) : Split(reserved_input[n])[k] = path[k]

(***************************************************************************)
(* C16: expanding an alias without placeholders leaves the pattern as it   *)
(* was before the alias, followed by the text of the alias's command: the  *)
(* part that stands for the earlier tokens is not changed. So, once an     *)
(* alias has been expanded, a later token that is no flag is suppressed    *)
(* exactly when the tokens put out so far, followed by it, are the start   *)
(* of a reserved command.                                                  *)
(***************************************************************************)
C16_RewriteKeepsEarlierSegments ==
    /\ (Scanned /\ last.branch = "alias" /\ LastAlias[1] # "-") =>
          collision_regex =
             last.regex \o Lower(TemplateOf(LastAlias)) \o CollisionSuffix
    /\ (/\ pc = "loop"
        /\ Scanned
        /\ LastAlias[1] # "-"
        /\ last.branch # "error"
        /\ skipped = {}
        /\ PreOutput # SubSeq(args, 1, last.pos - 1)
        /\ \A k \in 1..Len(PreOutput) : PreOutput[k][1] # "-")
       => (last.branch = "collision" <=> IsReservedPath(PreOutput \o <<LastAlias>>))

\* xs is ys with some of its elements left out
IsSubList(xs, ys) ==
    \E f \in [1..Len(xs) -> 1..Len(ys)] :
        /\ \A k \in 1..Len(xs) : ys[f[k]] = xs[k]
        /\ \A k \in 1..(Len(xs) - 1) : f[k] < f[k + 1]

(***************************************************************************)
(* C17: every step leaves the engine's list of reserved commands as it was *)
(* or with some commands left out, none added and none moved; so the list  *)
(* is at all times the list passed to __init__ with some commands left     *)
(* out. The list the caller passed is not changed.                         *)
(***************************************************************************)
C17_ReservedOnlyNarrows ==
    /\ [](IsSubList(reserved_commands, reserved_input))
    /\ [][/\ IsSubList(reserved_commands', reserved_commands)
          /\ reserved_input' = reserved_input]_vars

\* transform(['vm']) has left two of the four commands
C17_Witness ==
    /\ pc = "returned"
    /\ args = <<s_vm>>
    /\ Len(reserved_input) = 4
    /\ last.reserved = reserved_input
    /\ reserved_commands = <<s_vm_create, s_vm_list>>

\* the last iteration took its alias for a collision
Collided ==
    /\ Scanned
    /\ LastAlias[1] # "-"
    /\ ~is_collision(LastAlias, last.regex, last.reserved).error
    /\ is_collision(LastAlias, last.regex, last.reserved).collided # <<>>

(***************************************************************************)
(* C18: an alias taken for a collision is emitted as typed and is in the   *)
(* collision cache from then on; the recursive-alias error names a         *)
(* subcommand that is not in the cache, so never a token that collided in  *)
(* the call, also when another alias of the same args was expanded and the *)
(* check ran.                                                              *)
(***************************************************************************)
C18_CollidedTokenIsNeverNamed ==
    /\ [](Collided => (/\ LastAlias \in collision_cache
                       /\ last.emitted = <<LastAlias>>))
    /\ [][collision_cache \subseteq collision_cache']_vars
    /\ []((pc = "raised" /\ result.error = "RecursiveAlias")
            => (/\ result.name \notin collision_cache
                /\ transformed_commands # args))

\* transform(['b', 'b']) with b -> a, a -> b and 'b c' reserved: the first b
\* collides, the second becomes a, and the error names a
C18_Witness ==
    /\ pc = "raised"
    /\ result = Raised("RecursiveAlias", s_a)
    /\ args = <<s_b, s_b>>
    /\ transformed_commands = <<s_b, s_a>>
    /\ s_b \in collision_cache

=============================================================================
